---- MODULE Spec2Model ----
(***************************************************************************)
(* Model of the IframeWagentSDK custom element (src/index.js): the          *)
(* pending-wrap-up table, endCall, the interaction:stateChanged handler,    *)
(* _applyWrapupCode, changeState, the message bridge and the                *)
(* connect / initialise / disconnect life cycle.                            *)
(*                                                                          *)
(* JavaScript runs one continuation at a time.  A step of the model is one  *)
(* run of the element's code from an entry point (a callback, a command,    *)
(* the answer to an outstanding SDK request) up to the next await of an     *)
(* outstanding SDK request or to the end of the invocation.  An await of an *)
(* async function of the element itself that has already run to its end     *)
(* resumes in the same run.  Every suspended invocation is an element of    *)
(* the bag "tasks".                                                         *)
(***************************************************************************)
EXTENDS Bags, FiniteSets, Integers, Sequences, TLC

\* ------------------------------------------------------------------------
\* Bounds and input domains
\* ------------------------------------------------------------------------

\* at most this many invocations are suspended on an SDK request at once
MaxInFlight == 2

\* JavaScript null / undefined
Null == "null"

\* the number 0, as opposed to the string "0"
NumZero == "0 (number)"

Interactions == {"int1", "int2"}

Codes == {"wrapA", "wrapB"}

\* interaction state reported in the answer of Desktop.agentContact.end
EndStates == {"active", "wrapUp", "Wrapup", Null}

\* newState of an interaction:stateChanged event
EventStates == {"Wrapup", "Closed", "Ended", "connected"}

\* messages handed to changeState
Commands == {"Available", "Idle", "EndTask", "EndTaskAvail", "EndTaskIdle", "Bogus"}

\* func names of inbound window messages
FuncNames == {"parentFuncChgState", "noSuchFunction"}

\* a request is answered, rejected with an Error, or rejected with null/undefined
Rejections == {"error", "nullish"}

\* results of Desktop.actions.getTaskMap: the interaction ids of the map, in order
TaskMaps == {<<>>, <<"int1">>, <<"int2">>, <<"int1", "int2">>}

WrapL0 == <<>>

WrapL1 == << [id |-> "wrapA", name |-> "Customer Resolved"],
             [id |-> "wrapB", name |-> "Callback"] >>

WrapL2 == << [id |-> "wrapA", name |-> ""] >>

IdleL1 == << [id |-> "7", isDefault |-> FALSE], [id |-> "3", isDefault |-> TRUE] >>

IdleL2 == << [id |-> "5", isDefault |-> TRUE], [id |-> "3", isDefault |-> TRUE] >>

\* values of Desktop.agentStateInfo.latestData (hasIdleCodes FALSE: idleCodes undefined)
AgentData ==
  { [hasIdleCodes |-> FALSE, idleCodes |-> <<>>,   wrapupCodes |-> WrapL0],
    [hasIdleCodes |-> TRUE,  idleCodes |-> <<>>,   wrapupCodes |-> WrapL1],
    [hasIdleCodes |-> TRUE,  idleCodes |-> IdleL1, wrapupCodes |-> WrapL1],
    [hasIdleCodes |-> TRUE,  idleCodes |-> IdleL2, wrapupCodes |-> WrapL2] }

\* ------------------------------------------------------------------------
\* State
\* ------------------------------------------------------------------------
VARIABLES
  pendingWrapups,     \* this._pendingWrapups : interaction -> code, Null = no entry
  isSdkInitialized,   \* this._isSdkInitialized
  defaultAuxCode,     \* this.state.defaultAuxCode
  defaultWrapCode,    \* this.defaultWrapCode
  connected,          \* window.parentFuncChgState and the message listener exist
  listening,          \* the interaction:stateChanged listener is registered
  latestData,         \* Desktop.agentStateInfo.latestData
  tasks,              \* bag of invocations suspended on an SDK request
  entryReqs,          \* history: wrap-up requests issued for the current entry
  won,                \* history: the entry was written by the later of two endCalls
                      \*   (Off: the order of the end requests is not recorded)
  last                \* history: what the most recent step did

vars == << pendingWrapups, isSdkInitialized, defaultAuxCode, defaultWrapCode,
           connected, listening, latestData, tasks, entryReqs, won, last >>

NoCall == [call |-> Null, iid |-> Null, a |-> Null, b |-> Null]

\* Desktop.actions.getTaskMap()
TaskMapCall == [call |-> "getTaskMap", iid |-> Null, a |-> Null, b |-> Null]

\* Desktop.agentContact.end({interactionId, data: {mediaResourceId}})
EndCallReq(iid) == [call |-> "end", iid |-> iid, a |-> iid, b |-> Null]

\* Desktop.agentContact.wrapup({interactionId, data: {auxCodeId, wrapUpReason}})
WrapupCall(iid, auxCodeId, reason) ==
  [call |-> "wrapup", iid |-> iid, a |-> auxCodeId, b |-> reason]

\* Desktop.agentStateInfo.stateChange({state, auxCodeIdArray})
StateChangeCall(state, aux) ==
  [call |-> "stateChange", iid |-> Null, a |-> state, b |-> aux]

\* what a step did: the operation, the invocation's origin, its interaction and
\* code, the state or result it was given, the entry of the interaction before
\* the step, the calls of _applyWrapupCode it made, the SDK request it sent,
\* whether the invocation ended with it, and whether it ended by throwing
NoStep == [op |-> "none", kind |-> Null, iid |-> Null, code |-> Null, st |-> Null,
           had |-> Null, attempts |-> 0, call |-> NoCall, done |-> FALSE,
           threw |-> FALSE]

Step(op, kind, iid, code, st) ==
  [NoStep EXCEPT !.op = op, !.kind = kind, !.iid = iid, !.code = code, !.st = st,
                 !.had = IF iid = Null THEN Null ELSE pendingWrapups[iid]]

NoEntries == [i \in Interactions |-> Null]

NoCounts == [i \in Interactions |-> 0]

\* values of the history variable won besides 0 and 1
Disturbed == 0 - 1

Off == 0 - 2

NoOrder == [i \in Interactions |-> Off]

InFlight == BagCardinality(tasks)

Add(bag, t) == bag (+) SetToBag({t})

Remove(bag, t) == bag (-) SetToBag({t})

\* ------------------------------------------------------------------------
\* Pure helpers
\* ------------------------------------------------------------------------

RECURSIVE FirstDefault(_, _)
\* the for...of loop of _findDefaultAuxCode: first item with isDefault === true
FirstDefault(idleCodes, cur) ==
  IF idleCodes = <<>> THEN cur
  ELSE IF Head(idleCodes).isDefault THEN Head(idleCodes).id
       ELSE FirstDefault(Tail(idleCodes), cur)

\* _findDefaultAuxCode: the stored value is written only when a default is found
FindDefaultAuxCode(data, cur) ==
  IF data.hasIdleCodes THEN FirstDefault(data.idleCodes, cur) ELSE cur

\* undefined, as the result of a find that matched nothing
NoDetails == [id |-> Null, name |-> Null]

RECURSIVE Find(_, _)
\* Array.prototype.find((code) => code.id === wrapupCodeId)
Find(wrapupCodes, wrapupCodeId) ==
  IF wrapupCodes = <<>> THEN NoDetails
  ELSE IF Head(wrapupCodes).id = wrapupCodeId THEN Head(wrapupCodes)
       ELSE Find(Tail(wrapupCodes), wrapupCodeId)

\* _getWrapupCodeDetails
GetWrapupCodeDetails(data, wrapupCodeId) == Find(data.wrapupCodes, wrapupCodeId)

\* variant: the test of line 187 for a lookup that found nothing left out
ApplySendsUnchecked(data, wrapupCodeId) ==
  LET d == GetWrapupCodeDetails(data, wrapupCodeId)
  IN  d.id # "" /\ d.name # ""

\* the synchronous part of _applyWrapupCode: does it send a wrap-up request?
ApplySends(data, wrapupCodeId) ==
  LET d == GetWrapupCodeDetails(data, wrapupCodeId)
  IN  d # NoDetails /\ d.id # "" /\ d.name # ""

\* the request _applyWrapupCode sends
ApplyRequest(data, iid, wrapupCodeId) ==
  LET d == GetWrapupCodeDetails(data, wrapupCodeId)
  IN  WrapupCall(iid, d.id, d.name)

\* getInteractionId: the interaction of the first task of the map, else null
GetInteractionId(taskMap) == IF taskMap = <<>> THEN Null ELSE Head(taskMap)

\* variant: an empty list of idle codes taken for no list
IdleCodesNonEmpty(data) == data.hasIdleCodes /\ data.idleCodes # <<>>

\* the truthiness test of idleCodes (an empty array is truthy)
IdleCodesThere(data) == data.hasIdleCodes

\* suspended endCall invocations whose end request for iid is outstanding
EndsInFlight(bag, iid) ==
  {t \in BagToSet(bag) : t.pc = "end" /\ t.iid = iid /\ t.code # Null}

\* history: is the end request that is being sent for iid sent while an older one
\* with a code is outstanding?
IsLate(bag, iid, code) ==
  won[iid] # Off /\ code # Null /\ EndsInFlight(bag, iid) # {}

\* ------------------------------------------------------------------------
\* Initial state: the element as its constructor leaves it
\* ------------------------------------------------------------------------
Constructed ==
  /\ pendingWrapups = NoEntries
  /\ isSdkInitialized = FALSE
  /\ defaultAuxCode = NumZero
  /\ defaultWrapCode = Null
  /\ connected = FALSE
  /\ listening = FALSE
  /\ latestData \in AgentData
  /\ tasks = EmptyBag
  /\ entryReqs = NoCounts
  /\ last = NoStep

Init == Constructed /\ won = NoOrder

\* ------------------------------------------------------------------------
\* Table updates (with their history)
\* ------------------------------------------------------------------------

\* this._pendingWrapups.set(iid, code)
SetEntry(iid, code) ==
  /\ pendingWrapups' = [pendingWrapups EXCEPT ![iid] = code]
  /\ entryReqs' = [entryReqs EXCEPT ![iid] = 0]

\* variant: the whole table cleared instead of one entry deleted
DeleteAll(iid) ==
  /\ pendingWrapups' = NoEntries
  /\ entryReqs' = NoCounts

\* this._pendingWrapups.delete(iid)
DeleteEntry(iid) ==
  /\ pendingWrapups' = [pendingWrapups EXCEPT ![iid] = Null]
  /\ entryReqs' = [entryReqs EXCEPT ![iid] = 0]

KeepEntries == UNCHANGED << pendingWrapups, entryReqs >>

\* variants of the definitions below, each with one plausible slip; the
\* properties at the end of the module are checked to tell them apart

\* the state compared with "Wrapup", the spelling of the events
ImmediateWrapupSpelled(state) == state = "Wrapup"

\* the state compared in lower case
ImmediateWrapupLower(state) == state = "wrapup"

\* line 265: the end response reports the wrap-up state
ImmediateWrapup(state) == state = "wrapUp"

\* an entry that is there is kept instead of overwritten
QueueIfAbsent(iid, code) ==
  IF pendingWrapups[iid] = Null THEN SetEntry(iid, code) ELSE KeepEntries

\* line 272: queue the code for the state change event
QueueWrapup(iid, code) == SetEntry(iid, code)

\* the entry removed in the try block, after the answer, instead of in finally
ApplyFinallyOnSuccess(iid, result) ==
  IF result = "ok" THEN DeleteEntry(iid) ELSE KeepEntries

\* lines 230-232: the finally block of _applyWrapupCode; result: how the attempt
\* went ("none": no request was sent)
ApplyFinally(iid, result) == DeleteEntry(iid)

\* the test of line 156 left out
HasPendingAlways(wrapupCodeId) == TRUE

\* line 156: a pending code was found for the interaction
HasPending(wrapupCodeId) == wrapupCodeId # Null

\* only "Closed" recognised
IsTerminalClosedOnly(newState) == newState = "Closed"

\* line 168: the interaction is over
IsTerminal(newState) == newState \in {"Closed", "Ended"}

\* the test of line 293 left out
RejectedNever == FALSE

\* line 293: commands are rejected until the SDK is initialised
Rejected == ~isSdkInitialized

\* history of the end requests of iid after a step that leaves "rest" suspended:
\* 1 when the entry was written by an endCall whose end request was sent while an
\* older one was outstanding, Disturbed once an event for iid was handled while
\* end requests were outstanding, 0 when none is outstanding any more
Settle(rest, iid, rank) ==
  won' = [won EXCEPT ![iid] =
            IF won[iid] = Off THEN Off
            ELSE IF EndsInFlight(rest, iid) = {} THEN 0
            ELSE IF won[iid] = Disturbed THEN Disturbed ELSE rank]

\* ------------------------------------------------------------------------
\* connectedCallback, _renderIframe, _initializeSdkAndData
\* ------------------------------------------------------------------------

InitTask == [kind |-> "init", pc |-> "idleCodes", iid |-> Null, code |-> Null, late |-> FALSE]

\* hasFrameURL: the frameURL attribute is set; attr: the defaultWrap attribute;
\* configOk: Desktop.config.init() returns
Connect(hasFrameURL, attr, configOk) ==
  /\ ~connected
  /\ connected' = TRUE
  /\ defaultWrapCode' = IF hasFrameURL THEN attr ELSE defaultWrapCode
  /\ IF ~configOk
     THEN UNCHANGED << listening, isSdkInitialized, defaultAuxCode, tasks >>
     ELSE /\ listening' = TRUE
          /\ IF IdleCodesThere(latestData)
             THEN /\ isSdkInitialized' = TRUE
                  /\ defaultAuxCode' = FindDefaultAuxCode(latestData, defaultAuxCode)
                  /\ tasks' = tasks
             ELSE /\ InFlight < MaxInFlight
                  /\ tasks' = Add(tasks, InitTask)
                  /\ UNCHANGED << isSdkInitialized, defaultAuxCode >>
  /\ last' = [Step("connect", "init", Null, Null, Null) EXCEPT
                !.done = ~configOk \/ IdleCodesThere(latestData)]
  /\ UNCHANGED << latestData, won >>
  /\ KeepEntries

\* the agent state info changes and its "updated" notification runs the
\* listeners of the initialisations that wait for it (lines 61-69, 83-85)
AgentStateUpdated(data) ==
  /\ latestData' = data
  /\ IF IdleCodesThere(data) /\ BagIn(InitTask, tasks)
     THEN /\ isSdkInitialized' = TRUE
          /\ defaultAuxCode' = FindDefaultAuxCode(data, defaultAuxCode)
          /\ tasks' = [t \in BagToSet(tasks) \ {InitTask} |-> tasks[t]]
     ELSE UNCHANGED << isSdkInitialized, defaultAuxCode, tasks >>
  /\ last' = [Step("updated", "init", Null, Null, Null) EXCEPT
                !.done = IdleCodesThere(data) /\ BagIn(InitTask, tasks)]
  /\ UNCHANGED << defaultWrapCode, connected, listening, won >>
  /\ KeepEntries

\* disconnectedCallback
Disconnect ==
  /\ connected
  /\ connected' = FALSE
  /\ listening' = FALSE
  /\ isSdkInitialized' = FALSE
  /\ pendingWrapups' = NoEntries
  /\ entryReqs' = NoCounts
  /\ last' = [Step("disconnect", Null, Null, Null, Null) EXCEPT !.done = TRUE]
  /\ UNCHANGED << defaultAuxCode, defaultWrapCode, latestData, tasks, won >>

\* ------------------------------------------------------------------------
\* endCall and changeState
\* ------------------------------------------------------------------------

\* endCall up to its first await (line 242): getInteractionId asks for the task map
StartEndCall(op, kind, code) ==
  /\ InFlight < MaxInFlight
  /\ tasks' = Add(tasks, [kind |-> kind, pc |-> "taskMap", iid |-> Null,
                          code |-> code, late |-> FALSE])
  /\ last' = [Step(op, kind, Null, code, Null) EXCEPT !.call = TaskMapCall]

\* a state change request of changeState, up to its await
StartStateChange(op, kind, state, aux) ==
  /\ InFlight < MaxInFlight
  /\ tasks' = Add(tasks, [kind |-> kind, pc |-> "state", iid |-> Null,
                          code |-> Null, late |-> FALSE])
  /\ last' = [Step(op, kind, Null, Null, Null) EXCEPT !.call = StateChangeCall(state, aux)]

\* endCall called on the element
EndCall(code) ==
  /\ StartEndCall("endCall", "endCall", code)
  /\ UNCHANGED << isSdkInitialized, defaultAuxCode, defaultWrapCode, connected,
                  listening, latestData, won >>
  /\ KeepEntries

\* changeState(state), lines 292-387
ChangeState(state) ==
  /\ IF Rejected
     THEN /\ tasks' = tasks
          /\ last' = [Step("changeState", state, Null, Null, Null) EXCEPT !.done = TRUE]
     ELSE CASE state = "Available" ->
                 StartStateChange("changeState", state, "Available", "0")
            [] state = "Idle" ->
                 StartStateChange("changeState", state, "Idle", defaultAuxCode)
            [] state \in {"EndTask", "EndTaskAvail", "EndTaskIdle"} ->
                 StartEndCall("changeState", state, defaultWrapCode)
            [] OTHER ->
                 /\ tasks' = tasks
                 /\ last' = [Step("changeState", state, Null, Null, Null) EXCEPT
                               !.done = TRUE]
  /\ UNCHANGED << isSdkInitialized, defaultAuxCode, defaultWrapCode, connected,
                  listening, latestData, won >>
  /\ KeepEntries

\* _onMessage: a window message {func, message}; window.parentFuncChgState is
\* the only function of the bridge (line 29)
OnMessage(func, message) ==
  /\ connected
  /\ IF func = "parentFuncChgState"
     THEN ChangeState(message)
     ELSE /\ last' = [Step("message", Null, Null, Null, Null) EXCEPT !.done = TRUE]
          /\ UNCHANGED << isSdkInitialized, defaultAuxCode, defaultWrapCode, connected,
                          listening, latestData, tasks, won >>
          /\ KeepEntries

\* variant: the state change after the end of the task carries "0" for Idle too
ReturnFromEndCallZeroAux(rest, t, step, threw) ==
  IF ~threw /\ t.kind \in {"EndTaskAvail", "EndTaskIdle"}
  THEN /\ tasks' = Add(rest, [t EXCEPT !.pc = "state", !.iid = Null, !.code = Null,
                                       !.late = FALSE])
       /\ last' = [step EXCEPT !.call =
                     StateChangeCall(IF t.kind = "EndTaskAvail" THEN "Available"
                                     ELSE "Idle", "0")]
  ELSE /\ tasks' = rest
       /\ last' = [step EXCEPT !.done = TRUE, !.threw = threw /\ t.kind = "endCall"]

\* endCall is over: back in changeState (lines 332, 344-353, 366-374) or in the
\* caller of the element's method.  threw: endCall ended with an exception
ReturnFromEndCall(rest, t, step, threw) ==
  IF ~threw /\ t.kind \in {"EndTaskAvail", "EndTaskIdle"}
  THEN /\ tasks' = Add(rest, [t EXCEPT !.pc = "state", !.iid = Null, !.code = Null,
                                       !.late = FALSE])
       /\ last' = [step EXCEPT !.call =
                     IF t.kind = "EndTaskAvail"
                     THEN StateChangeCall("Available", "0")
                     ELSE StateChangeCall("Idle", defaultAuxCode)]
  ELSE /\ tasks' = rest
       /\ last' = [step EXCEPT !.done = TRUE, !.threw = threw /\ t.kind = "endCall"]

\* the task map request of getInteractionId is answered (lines 115-120, 243-255)
TaskMapResp(t, ok, taskMap) ==
  /\ BagIn(t, tasks) /\ t.pc = "taskMap"
  /\ LET rest == Remove(tasks, t)
         iid  == GetInteractionId(taskMap)
         step == Step("taskMapResp", t.kind, IF ok THEN iid ELSE Null, t.code, Null)
     IN  IF ok /\ iid # Null
         THEN /\ tasks' = Add(rest, [t EXCEPT !.pc = "end", !.iid = iid, !.late =
                                IsLate(rest, iid, t.code)])
              /\ last' = [step EXCEPT !.call = EndCallReq(iid)]
         ELSE ReturnFromEndCall(rest, t, step, ~ok)
  /\ UNCHANGED << isSdkInitialized, defaultAuxCode, defaultWrapCode, connected,
                  listening, latestData, won >>
  /\ KeepEntries

\* the end request is answered with an interaction state (lines 256-276)
EndOk(t, state) ==
  /\ BagIn(t, tasks) /\ t.pc = "end"
  /\ LET rest == Remove(tasks, t)
         step == Step("endResp", t.kind, t.iid, t.code, state)
     IN  IF t.code # Null /\ ImmediateWrapup(state)
         THEN IF ApplySends(latestData, t.code)
              THEN /\ tasks' = Add(rest, [t EXCEPT !.pc = "wrapup", !.late = FALSE])
                   /\ last' = [step EXCEPT !.attempts = 1,
                                 !.call = ApplyRequest(latestData, t.iid, t.code)]
                   /\ KeepEntries
                   /\ Settle(rest, t.iid, 0)
              ELSE /\ ApplyFinally(t.iid, "none")
                   /\ Settle(rest, t.iid, 0)
                   /\ ReturnFromEndCall(rest, t, [step EXCEPT !.attempts = 1], FALSE)
         ELSE IF t.code # Null
              THEN /\ QueueWrapup(t.iid, t.code)
                   /\ Settle(rest, t.iid, IF t.late THEN 1 ELSE 0)
                   /\ ReturnFromEndCall(rest, t, step, FALSE)
              ELSE /\ KeepEntries
                   /\ UNCHANGED won
                   /\ ReturnFromEndCall(rest, t, step, FALSE)
  /\ UNCHANGED << isSdkInitialized, defaultAuxCode, defaultWrapCode, connected,
                  listening, latestData >>

\* the end request is rejected (lines 277-289)
EndFail(t, rejection) ==
  /\ BagIn(t, tasks) /\ t.pc = "end"
  /\ LET rest == Remove(tasks, t)
         step == Step("endFail", t.kind, t.iid, t.code, rejection)
     IN  /\ IF t.code # Null
            THEN DeleteEntry(t.iid) /\ Settle(rest, t.iid, 0)
            ELSE KeepEntries /\ UNCHANGED won
         /\ ReturnFromEndCall(rest, t, step, FALSE)
  /\ UNCHANGED << isSdkInitialized, defaultAuxCode, defaultWrapCode, connected,
                  listening, latestData >>

\* the wrap-up request of _applyWrapupCode is answered or rejected (lines
\* 215-232); a rejection with null or undefined makes the catch block throw.
\* Back in the handler (line 166) or in endCall (lines 269, 277-289)
WrapupResp(t, result) ==
  /\ BagIn(t, tasks) /\ t.pc = "wrapup"
  /\ LET rest == Remove(tasks, t)
         step == Step("wrapupResp", t.kind, t.iid, t.code, result)
     IN  /\ ApplyFinally(t.iid, result)
         /\ Settle(rest, t.iid, 0)
         /\ IF t.kind = "handler"
            THEN /\ tasks' = rest
                 /\ last' = [step EXCEPT !.done = TRUE, !.threw = (result = "nullish")]
            ELSE ReturnFromEndCall(rest, t, step, FALSE)
  /\ UNCHANGED << isSdkInitialized, defaultAuxCode, defaultWrapCode, connected,
                  listening, latestData >>

\* the state change request of changeState is answered or rejected
StateChangeResp(t, result) ==
  /\ BagIn(t, tasks) /\ t.pc = "state"
  /\ tasks' = Remove(tasks, t)
  /\ last' = [Step("stateChangeResp", t.kind, Null, Null, result) EXCEPT !.done = TRUE]
  /\ UNCHANGED << isSdkInitialized, defaultAuxCode, defaultWrapCode, connected,
                  listening, latestData, won >>
  /\ KeepEntries

\* ------------------------------------------------------------------------
\* _handleInteractionStateChange
\* ------------------------------------------------------------------------

\* an event for iid is being handled: history of its outstanding end requests
Disturb(iid) ==
  won' = [won EXCEPT ![iid] =
            IF won[iid] = Off THEN Off
            ELSE IF EndsInFlight(tasks, iid) = {} THEN 0 ELSE Disturbed]

\* the interaction:stateChanged event {interactionId, newState}
HandleInteractionStateChange(iid, newState) ==
  /\ listening
  /\ LET wrapupCodeId == pendingWrapups[iid]
         step == Step("event", "handler", iid, wrapupCodeId, newState)
     IN  IF newState = "Wrapup" /\ HasPending(wrapupCodeId)
         THEN IF ApplySends(latestData, wrapupCodeId)
              THEN /\ InFlight < MaxInFlight
                   /\ tasks' = Add(tasks, [kind |-> "handler", pc |-> "wrapup",
                                 iid |-> iid, code |-> wrapupCodeId, late |-> FALSE])
                   /\ last' = [step EXCEPT !.attempts = 1,
                                 !.call = ApplyRequest(latestData, iid, wrapupCodeId)]
                   /\ pendingWrapups' = pendingWrapups
                   /\ entryReqs' = [entryReqs EXCEPT ![iid] = @ + 1]
              ELSE /\ ApplyFinally(iid, "none")
                   /\ tasks' = tasks
                   /\ last' = [step EXCEPT !.attempts = 1, !.done = TRUE]
         ELSE /\ IF IsTerminal(newState) /\ pendingWrapups[iid] # Null
                 THEN DeleteEntry(iid)
                 ELSE KeepEntries
              /\ tasks' = tasks
              /\ last' = [step EXCEPT !.done = TRUE]
  /\ Disturb(iid)
  /\ UNCHANGED << isSdkInitialized, defaultAuxCode, defaultWrapCode, connected,
                  listening, latestData >>

\* ------------------------------------------------------------------------
\* Specifications
\* ------------------------------------------------------------------------

\* answers of the SDK to the requests of suspended invocations of endCall and of
\* the event handler
Answers ==
  \/ \E t \in BagToSet(tasks), ok \in BOOLEAN, taskMap \in TaskMaps :
        TaskMapResp(t, ok, taskMap)
  \/ \E t \in BagToSet(tasks), state \in EndStates : EndOk(t, state)
  \/ \E t \in BagToSet(tasks), rejection \in Rejections : EndFail(t, rejection)
  \/ \E t \in BagToSet(tasks), result \in {"ok"} \cup Rejections : WrapupResp(t, result)

\* The wrap-up coordinator: the element is attached while the agent data is
\* there, endCall is called on it and interaction events arrive, in any order
\* and with any answers
CoordData == {d \in AgentData : d.idleCodes # <<>>}

InitCoord == Init /\ latestData \in CoordData

Next ==
  \/ Connect(TRUE, Null, TRUE)
  \/ \E code \in Codes \cup {Null} : EndCall(code)
  \/ Answers
  \/ \E iid \in Interactions, newState \in EventStates :
        HandleInteractionStateChange(iid, newState)

Spec == InitCoord /\ [][Next]_vars

\* The command dispatcher: the element is attached before or after the agent
\* data is there, commands come in as window messages and run on one interaction
DispatchData == {d \in AgentData : d.idleCodes \in {<<>>, IdleL1}}

InitDispatch == Init /\ latestData \in DispatchData

DispatchAnswers ==
  \/ \E t \in BagToSet(tasks), ok \in BOOLEAN, taskMap \in {<<>>, <<"int1">>} :
        TaskMapResp(t, ok, taskMap)
  \/ \E t \in BagToSet(tasks), state \in {"active", "wrapUp"} : EndOk(t, state)
  \/ \E t \in BagToSet(tasks) : EndFail(t, "error")
  \/ \E t \in BagToSet(tasks), result \in {"ok"} \cup Rejections : WrapupResp(t, result)
  \/ \E t \in BagToSet(tasks), result \in {"ok", "error"} : StateChangeResp(t, result)

NextDispatch ==
  \/ Connect(TRUE, "wrapA", TRUE)
  \/ \E data \in DispatchData : AgentStateUpdated(data)
  \/ \E func \in FuncNames, message \in Commands : OnMessage(func, message)
  \/ DispatchAnswers

SpecDispatch == InitDispatch /\ [][NextDispatch]_vars

\* Two endCalls for one interaction, with the order in which their end requests
\* were sent recorded
InitOrder == Constructed /\ won = NoCounts /\ latestData \in CoordData

NextOrder ==
  \/ Connect(TRUE, Null, TRUE)
  \/ \E code \in Codes : EndCall(code)
  \/ \E t \in BagToSet(tasks), ok \in BOOLEAN : TaskMapResp(t, ok, <<"int1">>)
  \/ \E t \in BagToSet(tasks), state \in {"active", "wrapUp"} : EndOk(t, state)
  \/ \E t \in BagToSet(tasks) : EndFail(t, "error")
  \/ \E t \in BagToSet(tasks), result \in {"ok", "error"} : WrapupResp(t, result)
  \/ \E newState \in {"Wrapup", "Ended"} : HandleInteractionStateChange("int1", newState)

SpecOrder == InitOrder /\ [][NextOrder]_vars

\* The life cycle: the element is attached, detached and attached again while
\* the agent data comes, changes and goes, and while endCall invocations that
\* were started on the attached element and wrap-up attempts are outstanding
InitLife == Init /\ latestData \in DispatchData

NextLife ==
  \/ \E configOk \in BOOLEAN : Connect(TRUE, "wrapA", configOk)
  \/ Disconnect
  \/ \E data \in DispatchData : AgentStateUpdated(data)
  \/ connected /\ EndCall("wrapA")
  \/ \E t \in BagToSet(tasks), ok \in BOOLEAN : TaskMapResp(t, ok, <<"int1">>)
  \/ \E t \in BagToSet(tasks), state \in {"active", "wrapUp"} : EndOk(t, state)
  \/ \E t \in BagToSet(tasks) : EndFail(t, "error")
  \/ \E t \in BagToSet(tasks), result \in {"ok", "error"} : WrapupResp(t, result)
  \/ \E newState \in {"Wrapup", "Ended"} : HandleInteractionStateChange("int1", newState)

SpecLife == InitLife /\ [][NextLife]_vars

\* ------------------------------------------------------------------------
\* Properties
\* ------------------------------------------------------------------------

\* the invocation that is suspended on the wrap-up request for (iid, code)
ApplyTask(kind, iid, code) ==
  [kind |-> kind, pc |-> "wrapup", iid |-> iid, code |-> code, late |-> FALSE]

\* the last step sent the wrap-up request for (iid, code)
SentWrapup(iid, code) ==
  /\ last.call.call = "wrapup"
  /\ last.call.iid = iid
  /\ last.call.a = code

\* C1: a Wrapup event for an interaction with a pending entry makes exactly one
\* apply attempt, with the code of the entry, and when the handler has finished
\* the table has no entry for the interaction, whether the wrap-up request was
\* answered, was rejected, or was never sent because the code lookup missed.
C1_WrapupEventConsumesEntry ==
  /\ (last.op = "event" /\ last.st = "Wrapup" /\ last.had # Null) =>
       /\ last.attempts = 1
       /\ last.code = last.had
       /\ IF last.done
          THEN last.call = NoCall /\ pendingWrapups[last.iid] = Null
          ELSE /\ SentWrapup(last.iid, last.had)
               /\ BagIn(ApplyTask("handler", last.iid, last.had), tasks)
  /\ (last.op = "wrapupResp" /\ last.kind = "handler") =>
       /\ last.done
       /\ last.attempts = 0
       /\ last.call = NoCall
       /\ pendingWrapups[last.iid] = Null

\* C1 witness: a handler has finished after its wrap-up request was rejected
C1_Witness ==
  /\ last.op = "wrapupResp"
  /\ last.kind = "handler"
  /\ last.st = "error"
  /\ last.done
  /\ pendingWrapups[last.iid] = Null

\* C2: at most one wrap-up request is sent per pending entry, also when a second
\* Wrapup event for the interaction arrives while the request for its entry is
\* outstanding.
C2_OneRequestPerEntry == \A i \in Interactions : entryReqs[i] <= 1

\* C3 as stated: after an end response that reports the state "Wrapup" for an
\* endCall with a code, the wrap-up request has been sent once with the
\* interaction and the code, and the table has no entry for the interaction.
C3_AsStated ==
  (last.op = "endResp" /\ last.st = "Wrapup" /\ last.code # Null) =>
     /\ last.attempts = 1
     /\ SentWrapup(last.iid, last.code)
     /\ pendingWrapups[last.iid] = Null

\* C3 amended: after an end response that reports the state "wrapUp" for an
\* endCall with a code, exactly one apply attempt has been made with the
\* interaction and the code: one wrap-up request when the code is in the wrap-up
\* list with a name, none otherwise; and the table has no entry for the
\* interaction when the call returns.
C3_ImmediateApply ==
  /\ (last.op = "endResp" /\ last.st = "wrapUp" /\ last.code # Null) =>
       /\ last.attempts = 1
       /\ IF ApplySends(latestData, last.code)
          THEN /\ SentWrapup(last.iid, last.code)
               /\ ~last.done
               /\ BagIn(ApplyTask(last.kind, last.iid, last.code), tasks)
          ELSE /\ last.call.call # "wrapup"
               /\ (last.kind = "endCall" => last.done)
               /\ pendingWrapups[last.iid] = Null
  /\ (last.op = "wrapupResp" /\ last.kind # "handler") =>
       /\ last.attempts = 0
       /\ last.call.call # "wrapup"
       /\ (last.kind = "endCall" => last.done)
       /\ pendingWrapups[last.iid] = Null

\* C3 witness: an endCall has returned after its immediate wrap-up request, sent
\* on a "wrapUp" response, was answered
C3_Witness ==
  /\ last.op = "wrapupResp"
  /\ last.kind = "endCall"
  /\ last.st = "ok"
  /\ last.done
  /\ pendingWrapups[last.iid] = Null

\* C4 as stated: after an end response that reports a state other than "Wrapup"
\* for an endCall with a code, the table maps the interaction to the code and
\* the call has made no apply attempt.
C4_AsStated ==
  (last.op = "endResp" /\ last.st # "Wrapup" /\ last.code # Null) =>
     /\ pendingWrapups[last.iid] = last.code
     /\ last.attempts = 0
     /\ last.call.call # "wrapup"

\* C4 amended: after an end response that reports a state other than "wrapUp"
\* (no state at all included) for an endCall with a code, the table maps the
\* interaction to the code as soon as the call returns, and the call has sent no
\* wrap-up request.
C4_Queued ==
  (last.op = "endResp" /\ last.st # "wrapUp" /\ last.code # Null) =>
     /\ pendingWrapups[last.iid] = last.code
     /\ last.attempts = 0
     /\ last.call.call # "wrapup"
     /\ (last.kind = "endCall" => last.done)

\* C4 witness: the response reported "Wrapup" and the code replaced another one
C4_Witness ==
  /\ last.op = "endResp"
  /\ last.st = "Wrapup"
  /\ last.code # Null
  /\ last.had \notin {Null, last.code}
  /\ pendingWrapups[last.iid] = last.code

C6_LaterEndCallWins ==
  [][\A t \in BagToSet(tasks) :
       ( /\ t.pc = "end" /\ t.code # Null /\ ~t.late
         /\ won[t.iid] = 1
         /\ last'.op = "endResp" /\ last'.iid = t.iid /\ last'.code = t.code
         /\ last'.st # "wrapUp"
         /\ tasks' = Remove(tasks, t) )
       => pendingWrapups'[t.iid] = pendingWrapups[t.iid]]_vars

\* C7: a Closed or Ended event for an interaction with a pending entry removes
\* the entry and makes no apply attempt.
C7_TerminalEventDiscards ==
  (last.op = "event" /\ last.st \in {"Closed", "Ended"} /\ last.had # Null) =>
     /\ pendingWrapups[last.iid] = Null
     /\ last.attempts = 0
     /\ last.call = NoCall
     /\ last.done

\* C7 witness: an Ended event has removed an entry
C7_Witness ==
  /\ last.op = "event"
  /\ last.st = "Ended"
  /\ last.had # Null
  /\ pendingWrapups[last.iid] = Null

\* C8: a Wrapup event for an interaction without pending entry makes no apply
\* attempt, sends nothing and leaves the table as it is.
C8_WrapupWithoutEntryIsNoOp ==
  [][(last'.op = "event" /\ last'.st = "Wrapup" /\ pendingWrapups[last'.iid] = Null) =>
       /\ last'.attempts = 0
       /\ last'.call = NoCall
       /\ last'.done
       /\ UNCHANGED << pendingWrapups, tasks >>]_vars

\* C8 witness: a Wrapup event for an interaction without entry was handled while
\* the other interaction had one
C8_Witness ==
  /\ last.op = "event"
  /\ last.st = "Wrapup"
  /\ last.had = Null
  /\ \E j \in Interactions : pendingWrapups[j] # Null

\* C9: when the end request of an endCall is rejected, the table has no entry
\* for the interaction once the call has returned, with or without a code in
\* this call and with or without an entry left by an earlier endCall.
C9_EndFailureLeavesNoEntry ==
  last.op = "endFail" => pendingWrapups[last.iid] = Null

\* C10: a command that reaches changeState while the SDK is not initialised
\* sends no SDK request and leaves the table, the default aux code and the flag
\* as they are.
C10_RejectedBeforeInitialized ==
  [][(last'.op = "changeState" /\ ~isSdkInitialized) =>
       /\ last'.call = NoCall
       /\ last'.done
       /\ UNCHANGED << pendingWrapups, defaultAuxCode, isSdkInitialized, tasks >>]_vars

\* C10 witness: EndTaskIdle was rejected while the initialisation waits for the
\* idle codes
C10_Witness ==
  /\ last.op = "changeState"
  /\ last.kind = "EndTaskIdle"
  /\ last.done
  /\ ~isSdkInitialized
  /\ connected
  /\ BagIn(InitTask, tasks)

\* C11: while the element is detached the table is empty: an endCall or a
\* wrap-up attempt that was outstanding when the element was detached does not
\* write the table when its request is answered later.
C11_EmptyWhileDisconnected == ~connected => pendingWrapups = NoEntries

\* C12: the initialisation sets the flag exactly when the idle codes are there:
\* in connectedCallback itself when they are there already, else in the first
\* "updated" notification that finds them; it is never left waiting while they
\* are there, and the flag never turns true without them.
C12_InitCompletesWithData ==
  [][ /\ BagIn(InitTask, tasks') => ~latestData'.hasIdleCodes
      /\ (~isSdkInitialized /\ isSdkInitialized') =>
            /\ latestData'.hasIdleCodes
            /\ last'.op \in {"connect", "updated"}
            /\ last'.done
      /\ (last'.op = "connect" /\ listening') =>
            IF latestData.hasIdleCodes
            THEN isSdkInitialized' /\ last'.done /\ tasks' = tasks
            ELSE /\ isSdkInitialized' = isSdkInitialized
                 /\ ~last'.done
                 /\ tasks' = Add(tasks, InitTask)
      /\ (last'.op = "updated" /\ BagIn(InitTask, tasks)) =>
            IF latestData'.hasIdleCodes
            THEN isSdkInitialized' /\ last'.done
            ELSE /\ isSdkInitialized' = isSdkInitialized
                 /\ ~last'.done
                 /\ tasks' = tasks ]_vars

\* C12 witness: an initialisation that waited has completed on a notification
\* that brought an empty list of idle codes
C12_Witness ==
  /\ last.op = "updated"
  /\ last.done
  /\ isSdkInitialized
  /\ latestData.hasIdleCodes
  /\ latestData.idleCodes = <<>>
  /\ ~BagIn(InitTask, tasks)

\* C13: after each completed initialisation the default aux code is the id of
\* the first idle code flagged isDefault in the list read by that
\* initialisation, and the number 0 when the list has no flagged element.
C13_DefaultAuxCodeAfterInit ==
  ( /\ last.op \in {"connect", "updated"}
    /\ last.done
    /\ last.op = "connect" => listening ) =>
     defaultAuxCode = FindDefaultAuxCode(latestData, NumZero)

\* C14: the table gets no entry for an interaction whose Wrapup or Ended event
\* was handled after the end request of the endCall was sent: the answer to an
\* end request that was outstanding while the event was handled leaves the
\* interaction without entry.
C14_NoEntryAfterEvent ==
  [][\A t \in BagToSet(tasks) :
       ( /\ t.pc = "end" /\ t.code # Null /\ ~t.late
         /\ won[t.iid] = Disturbed
         /\ last'.op = "endResp" /\ last'.iid = t.iid /\ last'.code = t.code
         /\ tasks' = Remove(tasks, t) )
       => pendingWrapups'[t.iid] = Null]_vars

\* C15: the completion of a wrap-up attempt that a Wrapup event started removes
\* no entry but the one the attempt was started for: an entry written meanwhile
\* by a newer endCall with another code stays.
C15_ApplyRemovesOwnEntry ==
  (last.op = "wrapupResp" /\ last.kind = "handler" /\ last.had # Null) =>
     last.had = last.code

\* C16: when the code of an apply attempt is not in the list of wrap-up codes,
\* no wrap-up request is sent, the entry of the interaction is removed all the
\* same, and nothing is queued or outstanding for a retry, in the event handler
\* and in the immediate apply of endCall.
C16_LookupMissConsumesEntry ==
  /\ ( /\ last.op = "event" /\ last.st = "Wrapup" /\ last.had # Null
       /\ GetWrapupCodeDetails(latestData, last.had) = NoDetails ) =>
        /\ last.attempts = 1
        /\ last.call = NoCall
        /\ last.done
        /\ pendingWrapups[last.iid] = Null
        /\ ~BagIn(ApplyTask("handler", last.iid, last.had), tasks)
  /\ ( /\ last.op = "endResp" /\ last.st = "wrapUp" /\ last.code # Null
       /\ GetWrapupCodeDetails(latestData, last.code) = NoDetails ) =>
        /\ last.attempts = 1
        /\ last.call.call # "wrapup"
        /\ (last.kind = "endCall" => last.done)
        /\ pendingWrapups[last.iid] = Null
        /\ ~BagIn(ApplyTask(last.kind, last.iid, last.code), tasks)

\* C16 witness: a Wrapup event found an entry whose code is not in the list and
\* removed it
C16_Witness ==
  /\ last.op = "event"
  /\ last.st = "Wrapup"
  /\ last.had = "wrapB"
  /\ GetWrapupCodeDetails(latestData, "wrapB") = NoDetails
  /\ last.call = NoCall
  /\ pendingWrapups[last.iid] = Null

\* C17: no invocation of endCall, of the event handler or of changeState ends
\* with an exception, whichever of its requests is rejected.
C17_NothingThrown == ~last.threw

\* C18: the state change request of EndTaskAvail and EndTaskIdle is sent in the
\* step in which the endCall before it returns, after the answer to the end
\* request and to the immediate wrap-up request if there was one, and the
\* requests of EndTaskIdle and Idle carry the default aux code.
C18_StateChangeAfterEndCall ==
  /\ (last.call.call = "stateChange" /\ last.kind \in {"EndTaskAvail", "EndTaskIdle"}) =>
        /\ last.op \in {"taskMapResp", "endResp", "endFail", "wrapupResp"}
        /\ last.op = "taskMapResp" => last.iid = Null
        /\ last.op = "endResp" =>
             ~(last.code # Null /\ last.st = "wrapUp" /\ ApplySends(latestData, last.code))
        /\ last.call = IF last.kind = "EndTaskAvail"
                       THEN StateChangeCall("Available", "0")
                       ELSE StateChangeCall("Idle", defaultAuxCode)
  /\ (last.op = "changeState" /\ ~last.done) =>
        last.call = CASE last.kind = "Available" -> StateChangeCall("Available", "0")
                      [] last.kind = "Idle" -> StateChangeCall("Idle", defaultAuxCode)
                      [] OTHER -> TaskMapCall

\* C18 witness: EndTaskIdle has sent its state change, with the default aux code
\* of the idle codes, once the immediate wrap-up request was answered
C18_Witness ==
  /\ last.op = "wrapupResp"
  /\ last.kind = "EndTaskIdle"
  /\ last.call = StateChangeCall("Idle", "3")
  /\ defaultAuxCode = "3"

\* C19: a step of endCall, of the event handler or of an apply attempt for one
\* interaction leaves the entries of the other interactions as they are, and an
\* event with a state other than Wrapup, Closed and Ended changes no entry and
\* sends no request.
C19_Isolation ==
  [][ /\ \A j \in Interactions :
           (last'.iid # j /\ last'.op # "disconnect") =>
              pendingWrapups'[j] = pendingWrapups[j]
      /\ (last'.op = "event" /\ last'.st \notin {"Wrapup", "Closed", "Ended"}) =>
           /\ pendingWrapups' = pendingWrapups
           /\ tasks' = tasks
           /\ last'.call = NoCall
           /\ last'.done ]_vars

\* C19 witness: the entry of int1 was removed at the end of its apply attempt
\* while int2 keeps its entry
C19_Witness ==
  /\ last.op = "wrapupResp"
  /\ last.iid = "int1"
  /\ last.had # Null
  /\ pendingWrapups["int1"] = Null
  /\ pendingWrapups["int2"] # Null

====
